---- MODULE Spec2Model ----
(***************************************************************************)
(* A model of comest (src/src/comest.ts), a declarative command-line test  *)
(* runner: scenario documents are normalized, their file assets are        *)
(* materialized as temporary files, each step's command template is        *)
(* interpolated, run through a shell and verified, and the results are     *)
(* reported with a process exit code.                                      *)
(*                                                                         *)
(* Text is modelled as a sequence of symbols.  The symbols "{", "}" and    *)
(* the white space symbols " ", "\n", "\t" stand for themselves; every     *)
(* other symbol is a run of characters holding none of these.              *)
(***************************************************************************)
EXTENDS Naturals, Integers, Sequences, FiniteSets, TLC

\* ------------------------------------------------------------------ bounds

\* Longest list of scenario documents handed to one run.
MaxDocs == 2
\* Longest captured or expected text, in symbols, of the verifier's inputs.
MaxLen == 2
\* Most fields one set of expectations declares, of the verifier's inputs.
MaxFields == 2

\* ------------------------------------------------------- JavaScript values

\* A JavaScript value: a string, a number, undefined or null.  Records of
\* one shape, so that record equality is the === of the source.
Str(s) == [t |-> "string", s |-> s, n |-> 0]
Num(n) == [t |-> "number", s |-> <<>>, n |-> n]
Undefined == [t |-> "undefined", s |-> <<>>, n |-> 0]
Null == [t |-> "null", s |-> <<>>, n |-> 0]

\* x ?? d
Coalesce(x, d) == IF x.t \in {"undefined", "null"} THEN d ELSE x

\* ------------------------------------------------------------------- text

WhiteSpace == {" ", "\n", "\t"}

RECURSIVE TrimStart(_)
TrimStart(s) ==
    IF s # <<>> /\ Head(s) \in WhiteSpace THEN TrimStart(Tail(s)) ELSE s

RECURSIVE TrimEnd(_)
TrimEnd(s) ==
    IF s # <<>> /\ s[Len(s)] \in WhiteSpace
    THEN TrimEnd(SubSeq(s, 1, Len(s) - 1))
    ELSE s

\* String.prototype.trim
Trim(s) == TrimEnd(TrimStart(s))

\* The least i >= from with s[i] = c, or 0.
RECURSIVE IndexOf(_, _, _)
IndexOf(s, c, from) ==
    IF from > Len(s) THEN 0
    ELSE IF s[from] = c THEN from
    ELSE IndexOf(s, c, from + 1)

\* Whether sub occurs in s at position i.
OccursAt(s, sub, i) ==
    /\ i >= 1
    /\ i + Len(sub) - 1 <= Len(s)
    /\ SubSeq(s, i, i + Len(sub) - 1) = sub

\* Whether sub is a contiguous part of s.
Contains(s, sub) == \E i \in 1..(Len(s) + 1) : OccursAt(s, sub, i)

\* String.prototype.replace(sub, ''): the first occurrence of sub removed.
RECURSIVE RemoveFirst(_, _, _)
RemoveFirst(s, sub, i) ==
    IF i + Len(sub) - 1 > Len(s) THEN s
    ELSE IF OccursAt(s, sub, i)
    THEN SubSeq(s, 1, i - 1) \o SubSeq(s, i + Len(sub), Len(s))
    ELSE RemoveFirst(s, sub, i + 1)

\* ------------------------------------------------------------ verification

\* result[key] of the object spawnSync returns, for the keys the model holds.
Field(result, key) ==
    IF key \in DOMAIN result THEN result[key] ELSE Undefined

\* verifyExpectation with the expected value trimmed as well.
verifyExpectationTrimBoth(result, expectations) ==
    IF ~expectations.present THEN <<>>
    ELSE [i \in 1..Len(expectations.entries) |->
            LET key == expectations.entries[i].key
                value == expectations.entries[i].value
                raw == Field(result, key)
                input == IF raw.t = "string" THEN Str(Trim(raw.s)) ELSE raw
                want == IF value.t = "string" THEN Str(Trim(value.s)) ELSE value
            IN [type |-> key,
                pass |-> input = want,
                expected |-> value,
                received |-> Coalesce(input, Str(<<>>))]]

\* verifyExpectation: one SuiteResult per entry of the expectations, in
\* their order; none when the expectations are falsy.
verifyExpectation(result, expectations) ==
    IF ~expectations.present THEN <<>>
    ELSE [i \in 1..Len(expectations.entries) |->
            LET key == expectations.entries[i].key
                value == expectations.entries[i].value
                raw == Field(result, key)
                input == IF raw.t = "string" THEN Str(Trim(raw.s)) ELSE raw
            IN [type |-> key,
                pass |-> input = value,
                expected |-> value,
                received |-> Coalesce(input, Str(<<>>))]]

\* ------------------------------------------------------------------ assets

\* An asset of a scenario document.  hasContent is whether the document gives
\* a content; hasFile and file are the property createAssets adds.
Asset(type, name, hasContent, content) ==
    [type |-> type, name |-> name, hasContent |-> hasContent,
     content |-> content, hasFile |-> FALSE, file |-> <<>>]

\* The greatest i with s[i] = c, or 0.
RECURSIVE LastIndexOf(_, _, _)
LastIndexOf(s, c, i) ==
    IF i = 0 THEN 0
    ELSE IF s[i] = c THEN i
    ELSE LastIndexOf(s, c, i - 1)

\* /(?:\.([^.]+))?$/.exec(name)[1], then the postfix made of it: the text
\* after the last dot, with the dot, when that text is not empty.
Postfix(name) ==
    LET dot == LastIndexOf(name, ".", Len(name))
    IN IF dot > 0 /\ dot < Len(name)
       THEN SubSeq(name, dot, Len(name))
       ELSE <<>>

Digits == <<"1", "2", "3", "4", "5", "6", "7", "8", "9">>

\* The name tmp.fileSync gives the k-th temporary file of the run: unique
\* per file, ending in the postfix.
TmpName(k, postfix) == <<"/tmp/tmp-", Digits[k]>> \o postfix

\* How many of the first i assets are file assets.
FileRank(assets, i) == Cardinality({j \in 1..i : assets[j].type = "file"})

\* createAssets, when made temporary files exist already: every file asset
\* gets a temporary file of its own.
createAssets(assets, made) ==
    [i \in 1..Len(assets) |->
        IF assets[i].type = "file"
        THEN [assets[i] EXCEPT
                !.hasFile = TRUE,
                !.file = TmpName(made + FileRank(assets, i),
                                 Postfix(assets[i].name))]
        ELSE assets[i]]

\* The paths removeAssets calls removeCallback on.
RemovedPaths(assets) ==
    {assets[i].file : i \in {j \in 1..Len(assets) :
                                assets[j].type = "file" /\ assets[j].hasFile}}

\* The file system after writeFileSync(path, content) for the file assets
\* among the first upto assets.
WriteAssets(fs, assets, upto) ==
    LET idx == {i \in 1..upto : assets[i].type = "file" /\ assets[i].hasFile}
        new == {assets[i].file : i \in idx}
        \* asset.content ?? ''
        text(i) == IF assets[i].hasContent THEN assets[i].content ELSE <<>>
    IN [p \in DOMAIN fs \cup new |->
          IF p \in new
          THEN text(CHOOSE i \in idx : assets[i].file = p)
          ELSE fs[p]]

\* The file system without the paths of gone.
Unlink(fs, gone) == [p \in DOMAIN fs \ gone |-> fs[p]]

\* ----------------------------------------------------------- interpolation

\* assets.find(asset => asset.name === name): the index of the first asset
\* of that name, or 0.
RECURSIVE FindAsset(_, _, _)
FindAsset(assets, name, i) ==
    IF i > Len(assets) THEN 0
    ELSE IF assets[i].name = name THEN i
    ELSE FindAsset(assets, name, i + 1)

\* Where the match of /\{(.*?)\}/ that starts at the head of t ends, or 0:
\* t starts with "{" and its first "}" comes before any line break.
MatchEnd(t) ==
    IF t = <<>> \/ Head(t) # "{" THEN 0
    ELSE LET close == IndexOf(t, "}", 2)
         IN IF close = 0 THEN 0
            ELSE IF \E k \in 2..(close - 1) : t[k] = "\n" THEN 0
            ELSE close

\* The captured groups of the matches of /\{(.*?)\}/g in t, from left to
\* right.
RECURSIVE PlaceholderNames(_)
PlaceholderNames(t) ==
    IF t = <<>> THEN <<>>
    ELSE LET close == MatchEnd(t)
         IN IF close = 0 THEN PlaceholderNames(Tail(t))
            ELSE <<SubSeq(t, 2, close - 1)>>
                    \o PlaceholderNames(SubSeq(t, close + 1, Len(t)))

\* The message thrown for a placeholder without an asset.  Inside the
\* callback of replace the captured group is called name and shadows the
\* name parameter of generateCommand, so the message ends with the
\* placeholder, not with the name generateCommand was given.
CannotFind(placeholder, command) ==
    <<"Cannot find asset \"">> \o placeholder \o <<"\" from \"">> \o command
        \o <<"\" in file ">> \o placeholder

\* What the callback of replace returns for the match `initial` with the
\* captured group `placeholder`, never throwing.
ReplacementKeep(assets, initial, placeholder, command) ==
    LET i == FindAsset(assets, placeholder, 1)
    IN IF i = 0 THEN [ok |-> TRUE, s |-> initial]
       ELSE IF assets[i].type = "file" THEN [ok |-> TRUE, s |-> assets[i].file]
       ELSE IF assets[i].type = "string"
       THEN [ok |-> TRUE,
             s |-> <<"\"">> \o (IF assets[i].hasContent THEN assets[i].content
                                ELSE <<"undefined">>) \o <<"\"">>]
       ELSE [ok |-> TRUE, s |-> initial]

\* What the callback of replace returns for the match `initial` with the
\* captured group `placeholder`; ok is FALSE when it throws s.
Replacement(assets, initial, placeholder, command) ==
    LET i == FindAsset(assets, placeholder, 1)
    IN IF i = 0 THEN [ok |-> FALSE, s |-> CannotFind(placeholder, command)]
       ELSE IF assets[i].type = "file" THEN [ok |-> TRUE, s |-> assets[i].file]
       ELSE IF assets[i].type = "string"
       THEN [ok |-> TRUE,
             s |-> <<"\"">> \o (IF assets[i].hasContent THEN assets[i].content
                                ELSE <<"undefined">>) \o <<"\"">>]
       ELSE [ok |-> TRUE, s |-> initial]

\* command.replace(/\{(.*?)\}/g, callback) from t on: the matches are
\* replaced from left to right, what replaces a match is not scanned again,
\* and the first throw of the callback ends the scan.
RECURSIVE ReplaceAll(_, _, _)
ReplaceAll(t, assets, command) ==
    IF t = <<>> THEN [ok |-> TRUE, s |-> <<>>]
    ELSE LET close == MatchEnd(t)
         IN IF close = 0
            THEN LET rest == ReplaceAll(Tail(t), assets, command)
                 IN IF rest.ok THEN [ok |-> TRUE, s |-> <<Head(t)>> \o rest.s]
                    ELSE rest
            ELSE LET rep == Replacement(assets, SubSeq(t, 1, close),
                                        SubSeq(t, 2, close - 1), command)
                 IN IF ~rep.ok THEN rep
                    ELSE LET rest == ReplaceAll(SubSeq(t, close + 1, Len(t)),
                                                assets, command)
                         IN IF rest.ok THEN [ok |-> TRUE, s |-> rep.s \o rest.s]
                            ELSE rest

\* generateCommand: the command with its placeholders replaced (ok), or the
\* message thrown (not ok).
generateCommand(command, assets, name) == ReplaceAll(command, assets, command)

\* --------------------------------------------------------------- execution

\* The object spawnSync returns, as far as verifyExpectation reads it.
Outcome(status, stdout, stderr) ==
    [status |-> status, stdout |-> stdout, stderr |-> stderr]

\* What the program under test may do: succeed, fail, or be killed by a
\* signal before it wrote anything (spawnSync then gives a null status).
ProgOutcomes ==
    {Outcome(Num(0), Str(<<"foo", "\n">>), Str(<<>>)),
     Outcome(Num(0), Str(<<"bar", "\n">>), Str(<<>>)),
     Outcome(Num(1), Str(<<>>), Str(<<"oops", "\n">>)),
     Outcome(Null, Str(<<>>), Str(<<>>))}

\* The text of a double-quoted shell word.
Unquote(s) == SelectSeq(s, LAMBDA c : c # "\"")

\* The file system with text as the content of path.
WriteFile(fs, path, text) ==
    [p \in DOMAIN fs \cup {path} |-> IF p = path THEN text ELSE fs[p]]

\* executeCommand: the command run by a shell on the file system fs, to its
\* end.  The first symbol of a command is its program and redirection, the
\* rest its operand.  The set of the possible outcomes, each with the file
\* system it leaves.
executeCommand(command, fs) ==
    LET verb == IF command = <<>> THEN "" ELSE Head(command)
        arg == IF command = <<>> THEN <<>> ELSE Tail(command)
        old == IF arg \in DOMAIN fs THEN fs[arg] ELSE <<>>
        quiet(status) == Outcome(Num(status), Str(<<>>), Str(<<>>))
    IN CASE verb = "echo foo > " ->
                {[result |-> quiet(0), fs |-> WriteFile(fs, arg, <<"foo", "\n">>)]}
         [] verb = "echo bar >> " ->
                {[result |-> quiet(0),
                  fs |-> WriteFile(fs, arg, old \o <<"bar", "\n">>)]}
         [] verb = "cat " ->
                IF arg \in DOMAIN fs
                THEN {[result |-> Outcome(Num(0), Str(fs[arg]), Str(<<>>)),
                       fs |-> fs]}
                ELSE {[result |-> Outcome(Num(1), Str(<<>>),
                                          Str(<<"cat: No such file", "\n">>)),
                       fs |-> fs]}
         [] verb = "echo " ->
                {[result |-> Outcome(Num(0), Str(Unquote(arg) \o <<"\n">>),
                                     Str(<<>>)),
                  fs |-> fs]}
         [] verb = "echo foo && exit 42" ->
                {[result |-> Outcome(Num(42), Str(<<"foo", "\n">>), Str(<<>>)),
                  fs |-> fs]}
         [] verb = "false" -> {[result |-> quiet(1), fs |-> fs]}
         [] verb = "prog" -> {[result |-> o, fs |-> fs] : o \in ProgOutcomes}
         [] OTHER ->
                {[result |-> Outcome(Num(127), Str(<<>>),
                                     Str(<<"command not found", "\n">>)),
                  fs |-> fs]}

\* ----------------------------------------------------------- normalization

\* A declared expectation: key and expected value.
Expect(key, value) == [key |-> key, value |-> value]
\* The expect mapping of a document or step: its entries, in their order.
Expectations(entries) == [present |-> TRUE, entries |-> entries]
NoExpectations == [present |-> FALSE, entries |-> <<>>]

\* A step: command and expect, each possibly undefined.
Step(hasCommand, command, expect) ==
    [hasCommand |-> hasCommand, command |-> command, expect |-> expect]

\* normalizeConfig of a valid document: steps made of command and expect
\* when the document has no steps, assets defaulted to none.
normalizeConfig(config) ==
    [name |-> config.name,
     path |-> config.path,
     assets |-> IF config.hasAssets THEN config.assets ELSE <<>>,
     steps |-> IF config.hasSteps THEN config.steps
               ELSE <<Step(config.hasCommand, config.command, config.expect)>>]

\* The test of normalizeConfig: a document is valid when it has a name.
ConfigValid(config) == config.hasName

\* The message normalizeConfig throws.
ConfigNotValid(config) ==
    <<"Config not valid: skipping the test suite: ", "\n">> \o config.path

\* ---------------------------------------------------------------- reporting

RECURSIVE Sum(_)
Sum(ns) == IF ns = <<>> THEN 0 ELSE Head(ns) + Sum(Tail(ns))

\* The number of the SuiteResults of a step that pass.
Passing(fields) == Cardinality({i \in 1..Len(fields) : fields[i].pass})

\* formatResults counting the suites as before a scenario had steps
\* (results.reduce((a, v) => (a += v.result.length), 0)).
formatResultsFlat(results) ==
    [suitesCount |->
        Sum([i \in 1..Len(results) |-> Len(results[i].result)]),
     passingTests |->
        Sum([i \in 1..Len(results) |->
                Sum([j \in 1..Len(results[i].result) |->
                        Passing(results[i].result[j].result)])])]

\* formatResults: the counts it returns.
formatResults(results) ==
    [suitesCount |->
        Sum([i \in 1..Len(results) |->
                Sum([j \in 1..Len(results[i].result) |->
                        Len(results[i].result[j].result)])]),
     passingTests |->
        Sum([i \in 1..Len(results) |->
                Sum([j \in 1..Len(results[i].result) |->
                        Passing(results[i].result[j].result)])])]

\* What one step contributes to the result of its scenario: the
\* SuiteResults and the command as the step declares it.
StepRecordInterpolated(step, result, command) ==
    [result |-> result, command |-> command]

StepRecord(step, result, command) ==
    [result |-> result, command |-> step.command]

\* ---------------------------------------------------------------- documents

\* process.cwd()
Cwd == <<"/work">>

\* A scenario document as getConfigs hands it to normalizeConfig: the parsed
\* YAML with its path.  The has... fields tell which keys the YAML holds.
Simple(hasName, name, file, hasCommand, command, assets, expect) ==
    [hasName |-> hasName, name |-> name,
     path |-> Cwd \o <<"/test/", file, ".test.yml">>,
     hasCommand |-> hasCommand, command |-> command, expect |-> expect,
     hasSteps |-> FALSE, steps |-> <<>>,
     hasAssets |-> assets # <<>>, assets |-> assets]

WithSteps(name, file, assets, steps) ==
    [hasName |-> TRUE, name |-> name,
     path |-> Cwd \o <<"/test/", file, ".test.yml">>,
     hasCommand |-> FALSE, command |-> <<>>, expect |-> NoExpectations,
     hasSteps |-> TRUE, steps |-> steps,
     hasAssets |-> assets # <<>>, assets |-> assets]

Placeholder(name) == <<"{">> \o name \o <<"}">>

Lorem == <<"Lorem", " ", "ipsum">>
Dolor == <<"dolor", " ", "sit", " ", "amet">>
File1 == Asset("file", <<"file1">>, TRUE, Lorem)
EmptyFile1 == Asset("file", <<"file1">>, FALSE, <<>>)
Script == Asset("file", <<"script", ".", "sh">>, TRUE, <<"exit", " ", "0">>)

\* README, "Basic example", with the program under test as the command.
EchoTest ==
    Simple(TRUE, "Simple echo test", "echo", TRUE, <<"prog">>, <<>>,
           Expectations(<<Expect("status", Num(0)),
                          Expect("stdout", Str(<<"foo">>))>>))

ExitTest ==
    Simple(TRUE, "Simple exit test", "exit", TRUE, <<"echo foo && exit 42">>,
           <<>>,
           Expectations(<<Expect("status", Num(42)),
                          Expect("stdout", Str(<<"foo">>))>>))

\* README, "With files".
PrintFile ==
    Simple(TRUE, "Print file content", "print", TRUE,
           <<"cat ">> \o Placeholder(<<"file1">>), <<File1>>,
           Expectations(<<Expect("status", Num(0)),
                          Expect("stdout", Str(Lorem))>>))

PrintFileFails ==
    Simple(TRUE, "Print file content", "printfail", TRUE,
           <<"cat ">> \o Placeholder(<<"file1">>), <<File1>>,
           Expectations(<<Expect("status", Num(0)),
                          Expect("stdout", Str(Dolor))>>))

\* README, "Multi steps".
StepsDemo ==
    WithSteps("Steps demo", "steps", <<EmptyFile1>>,
        <<Step(TRUE, <<"echo foo > ">> \o Placeholder(<<"file1">>),
               Expectations(<<Expect("status", Num(0))>>)),
          Step(TRUE, <<"echo bar >> ">> \o Placeholder(<<"file1">>),
               NoExpectations),
          Step(TRUE, <<"cat ">> \o Placeholder(<<"file1">>),
               Expectations(<<Expect("status", Num(0)),
                              Expect("stdout", Str(<<"foo", "\n", "bar">>))>>))>>)

\* A step that always fails, then the program under test.
FailThenRun ==
    WithSteps("Fail then run", "fail", <<>>,
        <<Step(TRUE, <<"false">>, Expectations(<<Expect("status", Num(0))>>)),
          Step(TRUE, <<"prog">>,
               Expectations(<<Expect("stdout", Str(<<"foo">>))>>))>>)

\* The second step names an asset the scenario does not have, after one it
\* has.
MissingAsset ==
    WithSteps("Missing asset", "missing", <<Script>>,
        <<Step(TRUE, <<"cat ">> \o Placeholder(Script.name), NoExpectations),
          Step(TRUE, <<"cat ">> \o Placeholder(Script.name) \o <<" ">>
                         \o Placeholder(<<"nope">>), NoExpectations),
          Step(TRUE, <<"prog">>, NoExpectations)>>)

\* The command names an asset the scenario does not have, before one it has.
MissingFirst ==
    Simple(TRUE, "Missing first", "missingfirst", TRUE,
           <<"cat ">> \o Placeholder(<<"nope">>) \o <<" ">>
               \o Placeholder(<<"file1">>),
           <<File1>>, Expectations(<<Expect("status", Num(0))>>))

\* A document without a name.
NoName ==
    Simple(FALSE, "", "noname", TRUE, <<"prog">>, <<>>,
           Expectations(<<Expect("status", Num(0))>>))

\* A document with a name and neither command nor steps.
NoCommand ==
    Simple(TRUE, "No command", "nocommand", FALSE, <<>>, <<>>, NoExpectations)

\* A document with a name and an empty list of steps.
EmptySteps == WithSteps("Empty steps", "empty", <<File1>>, <<>>)

\* A string asset.
StringAsset ==
    Simple(TRUE, "String asset", "string", TRUE,
           <<"echo ">> \o Placeholder(<<"greeting">>),
           <<Asset("string", <<"greeting">>, TRUE, <<"hello", " ", "world">>)>>,
           Expectations(<<Expect("stdout", Str(<<"hello", " ", "world">>))>>))

\* Two assets of one name, the string first, and a file without content.
TwoFiles ==
    WithSteps("Two files", "two",
        <<Asset("string", <<"x">>, TRUE, <<"hi">>),
          Asset("file", <<"x">>, TRUE, <<"A">>),
          Asset("file", <<"b">>, FALSE, <<>>)>>,
        <<Step(TRUE, <<"echo ">> \o Placeholder(<<"x">>),
               Expectations(<<Expect("stdout", Str(<<"hi">>))>>)),
          Step(TRUE, <<"cat ">> \o Placeholder(<<"b">>),
               Expectations(<<Expect("stdout", Str(<<>>)),
                              Expect("stderr", Str(<<>>))>>))>>)

Catalog ==
    {EchoTest, ExitTest, PrintFile, PrintFileFails, StepsDemo, FailThenRun,
     MissingAsset, MissingFirst, NoName, NoCommand, EmptySteps, StringAsset,
     TwoFiles}

\* The lists of documents a run may find.
DocLists == UNION {[1..n -> Catalog] : n \in 0..MaxDocs}

\* -------------------------------------------------------------------- state

VARIABLES
    docs,        \* the documents getConfigs reads, in glob order
    pc,          \* where comest is: start, create, steps, format, exited
    configs,     \* what getConfigs returned
    ci,          \* the index of the scenario the outer map is at
    si,          \* the index of the step the inner map is at
    assets,      \* config.assets of the scenario at hand, after createAssets
    fs,          \* the temporary directory: path -> content of each file
    made,        \* how many temporary files tmp has made
    created,     \* history: the files made, each with its scenario
    removed,     \* history: the files removeCallback was called for
    executed,    \* history: the commands handed to the shell
    suiteResult, \* the results of the steps of the scenario at hand
    result,      \* the results of the scenarios done
    exitCode,    \* the code given to process.exit, -1 before
    output,      \* what was printed: none, report or error
    err,         \* what the catch clause caught
    vResult,     \* verifier alone: the outcome it is given
    vExpect,     \* verifier alone: the expectations it is given
    vOut,        \* verifier alone: what it returned
    vDone        \* verifier alone: whether it has returned

runVars ==
    <<docs, pc, configs, ci, si, assets, fs, made, created, removed, executed,
      suiteResult, result, exitCode, output, err>>
verifyVars == <<vResult, vExpect, vOut, vDone>>
vars == <<runVars, verifyVars>>

NoError == [kind |-> "none", message |-> <<>>]

\* The state comest starts in, before the documents are chosen.
RunInit ==
    /\ pc = "start"
    /\ configs = <<>>
    /\ ci = 0
    /\ si = 0
    /\ assets = <<>>
    /\ fs = <<>>
    /\ made = 0
    /\ created = <<>>
    /\ removed = <<>>
    /\ executed = <<>>
    /\ suiteResult = <<>>
    /\ result = <<>>
    /\ exitCode = -1
    /\ output = "none"
    /\ err = NoError

VerifyIdle ==
    /\ vResult = Outcome(Undefined, Undefined, Undefined)
    /\ vExpect = NoExpectations
    /\ vOut = <<>>
    /\ vDone = FALSE

Init ==
    /\ docs \in DocLists
    /\ RunInit
    /\ VerifyIdle

\* The catch clause of comest: the error is printed and the process exits
\* with code 1.
Catch(kind, message) ==
    /\ err' = [kind |-> kind, message |-> message]
    /\ output' = "error"
    /\ exitCode' = 1
    /\ pc' = "exited"

\* ------------------------------------------------------------------ actions

\* getConfigs: every document is normalized before any scenario runs; the
\* first document that is not valid throws.
GetConfigs ==
    /\ pc = "start"
    /\ LET bad == {i \in 1..Len(docs) : ~ConfigValid(docs[i])}
       IN IF bad = {}
          THEN /\ configs' = [i \in 1..Len(docs) |-> normalizeConfig(docs[i])]
               /\ ci' = 1
               /\ pc' = IF Len(docs) = 0 THEN "format" ELSE "create"
               /\ UNCHANGED <<err, output, exitCode>>
          ELSE /\ Catch("config",
                        ConfigNotValid(docs[CHOOSE i \in bad :
                                                \A j \in bad : i <= j]))
               /\ UNCHANGED <<configs, ci>>
    /\ UNCHANGED <<docs, si, assets, fs, made, created, removed, executed,
                   suiteResult, result, verifyVars>>

\* The files of `as` among its first upto assets, as history entries.
Made(as, upto) ==
    SelectSeq([i \in 1..upto |->
                 [ci |-> ci, asset |-> i, path |-> as[i].file,
                  isFile |-> as[i].type = "file", at |-> Len(executed)]],
              LAMBDA e : e.isFile)

\* config.assets = createAssets(config.assets), all files made and written.
CreateAssets ==
    /\ pc = "create"
    /\ LET as == createAssets(configs[ci].assets, made)
       IN /\ assets' = as
          /\ fs' = WriteAssets(fs, as, Len(as))
          /\ made' = made + FileRank(as, Len(as))
          /\ created' = created \o Made(as, Len(as))
    /\ si' = 1
    /\ suiteResult' = <<>>
    /\ pc' = "steps"
    /\ UNCHANGED <<docs, configs, ci, removed, executed, result, exitCode,
                   output, err, verifyVars>>

\* createAssets throws at the file asset k: tmp.fileSync could not make the
\* file, or made it and writeFileSync could not write it.
CreateAssetsThrows ==
    /\ pc = "create"
    /\ \E k \in {i \in 1..Len(configs[ci].assets) :
                    configs[ci].assets[i].type = "file"}, madeIt \in BOOLEAN :
          LET as == createAssets(configs[ci].assets, made)
              upto == IF madeIt THEN k ELSE k - 1
          IN /\ assets' = [i \in 1..Len(as) |->
                             IF i <= upto THEN as[i] ELSE configs[ci].assets[i]]
             /\ fs' = IF madeIt
                      THEN WriteFile(WriteAssets(fs, as, k - 1), as[k].file, <<>>)
                      ELSE WriteAssets(fs, as, k - 1)
             /\ made' = made + FileRank(as, upto)
             /\ created' = created \o Made(as, upto)
    /\ Catch("io", <<"ENOSPC">>)
    /\ UNCHANGED <<docs, configs, ci, si, removed, executed, suiteResult,
                   result, verifyVars>>

\* config.path.replace(process.cwd(), '')
Label(config) == RemoveFirst(config.path, Cwd, 1)

\* RunStep leaving the map once a step has failed an expectation.
RunStepShortCircuit ==
    /\ pc = "steps"
    /\ si <= Len(configs[ci].steps)
    /\ LET step == configs[ci].steps[si]
           command == generateCommand(step.command, assets, Label(configs[ci]))
       IN /\ step.hasCommand
          /\ command.ok
          /\ \E o \in executeCommand(command.s, fs) :
                LET record == StepRecord(step,
                                  verifyExpectation(o.result, step.expect),
                                  command.s)
                IN /\ executed' = Append(executed,
                                    [ci |-> ci, si |-> si, command |-> command.s,
                                     assets |-> assets, before |-> fs,
                                     after |-> o.fs, result |-> o.result])
                   /\ fs' = o.fs
                   /\ suiteResult' = Append(suiteResult, record)
                   /\ si' = IF \E k \in 1..Len(record.result) : ~record.result[k].pass
                            THEN Len(configs[ci].steps) + 1
                            ELSE si + 1
    /\ UNCHANGED <<docs, pc, configs, ci, assets, made, created, removed,
                   result, exitCode, output, err, verifyVars>>

\* RunStep with removeAssets called at the end of every step.
RunStepRemoves ==
    /\ pc = "steps"
    /\ si <= Len(configs[ci].steps)
    /\ LET step == configs[ci].steps[si]
           command == generateCommand(step.command, assets, Label(configs[ci]))
       IN /\ step.hasCommand
          /\ command.ok
          /\ \E o \in executeCommand(command.s, fs) :
                /\ executed' = Append(executed,
                                  [ci |-> ci, si |-> si, command |-> command.s,
                                   assets |-> assets, before |-> fs,
                                   after |-> o.fs, result |-> o.result])
                /\ fs' = Unlink(o.fs, RemovedPaths(assets))
                /\ suiteResult' = Append(suiteResult,
                                    StepRecord(step,
                                        verifyExpectation(o.result, step.expect),
                                        command.s))
    /\ si' = si + 1
    /\ UNCHANGED <<docs, pc, configs, ci, assets, made, created, removed,
                   result, exitCode, output, err, verifyVars>>

\* One turn of config.steps.map: the command is generated, executed and
\* verified, and the step's record is kept.
RunStep ==
    /\ pc = "steps"
    /\ si <= Len(configs[ci].steps)
    /\ LET step == configs[ci].steps[si]
           command == generateCommand(step.command, assets, Label(configs[ci]))
       IN /\ step.hasCommand
          /\ command.ok
          /\ \E o \in executeCommand(command.s, fs) :
                /\ executed' = Append(executed,
                                  [ci |-> ci, si |-> si, command |-> command.s,
                                   assets |-> assets, before |-> fs,
                                   after |-> o.fs, result |-> o.result])
                /\ fs' = o.fs
                /\ suiteResult' = Append(suiteResult,
                                    StepRecord(step,
                                        verifyExpectation(o.result, step.expect),
                                        command.s))
    /\ si' = si + 1
    /\ UNCHANGED <<docs, pc, configs, ci, assets, made, created, removed,
                   result, exitCode, output, err, verifyVars>>

\* One turn of config.steps.map that throws: generateCommand finds no asset
\* for a placeholder, or the step has no command to call replace on.
RunStepThrows ==
    /\ pc = "steps"
    /\ si <= Len(configs[ci].steps)
    /\ LET step == configs[ci].steps[si]
           command == generateCommand(step.command, assets, Label(configs[ci]))
       IN IF ~step.hasCommand
          THEN Catch("type", <<"TypeError: Cannot read property 'replace' of undefined">>)
          ELSE /\ ~command.ok
               /\ Catch("asset", command.s)
    /\ UNCHANGED <<docs, configs, ci, si, assets, fs, made, created, removed,
                   executed, suiteResult, result, verifyVars>>

\* The end of the outer map's turn: removeAssets, and the scenario's result
\* is returned.
RemoveAssets ==
    /\ pc = "steps"
    /\ si > Len(configs[ci].steps)
    /\ fs' = Unlink(fs, RemovedPaths(assets))
    /\ removed' = removed \o
          SelectSeq([i \in 1..Len(assets) |->
                       [ci |-> ci, path |-> assets[i].file,
                        isFile |-> assets[i].type = "file" /\ assets[i].hasFile,
                        at |-> Len(executed)]],
                    LAMBDA e : e.isFile)
    /\ result' = Append(result, [path |-> configs[ci].path,
                                 name |-> configs[ci].name,
                                 result |-> suiteResult])
    /\ IF ci < Len(configs)
       THEN ci' = ci + 1 /\ pc' = "create"
       ELSE ci' = ci /\ pc' = "format"
    /\ UNCHANGED <<docs, configs, si, assets, made, created, executed,
                   suiteResult, exitCode, output, err, verifyVars>>

\* formatResults, console.log and process.exit.
Report ==
    /\ pc = "format"
    /\ LET counts == formatResults(result)
       IN exitCode' = IF counts.suitesCount = counts.passingTests THEN 0 ELSE 1
    /\ output' = "report"
    /\ pc' = "exited"
    /\ UNCHANGED <<docs, configs, ci, si, assets, fs, made, created, removed,
                   executed, suiteResult, result, err, verifyVars>>

Next ==
    \/ GetConfigs
    \/ CreateAssets
    \/ CreateAssetsThrows
    \/ RunStep
    \/ RunStepThrows
    \/ RemoveAssets
    \/ Report

Spec == Init /\ [][Next]_vars

\* ------------------------------------------------------ the verifier alone

Alphabet == {"foo", " ", "\n"}
Texts == UNION {[1..n -> Alphabet] : n \in 0..MaxLen}

\* The outcomes the verifier is given: a status or none, captured text or
\* none.
VerifyResults ==
    {Outcome(status, stdout, stderr) :
        status \in {Num(0), Num(1), Null},
        stdout \in {Str(t) : t \in Texts} \cup {Undefined, Null},
        stderr \in {Str(<<>>), Undefined}}

\* The expectations a document may declare for a key.
VerifyEntries ==
    {Expect("status", v) : v \in {Num(0), Num(1), Null}}
        \cup {Expect("stdout", v) : v \in {Str(t) : t \in Texts} \cup {Num(0)}}
        \cup {Expect("stderr", v) : v \in {Str(<<>>), Str(<<"foo">>)}}
        \cup {Expect("code", Num(0))}

\* The expect mappings: absent, or up to MaxFields entries of distinct keys.
VerifyExpectations ==
    {NoExpectations} \cup
    {Expectations(e) :
        e \in UNION {{f \in [1..n -> VerifyEntries] :
                        \A i, j \in 1..n : i # j => f[i].key # f[j].key} :
                     n \in 0..MaxFields}}

InitVerify ==
    /\ docs = <<>>
    /\ RunInit
    /\ vResult \in VerifyResults
    /\ vExpect \in VerifyExpectations
    /\ vOut = <<>>
    /\ vDone = FALSE

\* verifyExpectation(result, expectations) is called.
Verify ==
    /\ ~vDone
    /\ vOut' = verifyExpectation(vResult, vExpect)
    /\ vDone' = TRUE
    /\ UNCHANGED <<vResult, vExpect, runVars>>

NextVerify == Verify

SpecVerify == InitVerify /\ [][NextVerify]_vars

\* ------------------------------------------------------------- properties

\* The commands executed for scenario k, in the order of their execution.
ExecOf(k) == SelectSeq(executed, LAMBDA e : e.ci = k)

\* Every SuiteResult of every step of every scenario of rs passes.
AllPass(rs) ==
    \A i \in 1..Len(rs) : \A j \in 1..Len(rs[i].result) :
        \A k \in 1..Len(rs[i].result[j].result) : rs[i].result[j].result[k].pass

\* Whether a step's results hold a failure.
Failing(stepRecord) ==
    \E k \in 1..Len(stepRecord.result) : ~stepRecord.result[k].pass

\* C1: a run that ends with the report exits with code 0 exactly when every
\* FieldResult of every step of every scenario passed (none at all included),
\* and with a non-zero code otherwise.
C1_ExitCodeIffAllPass ==
    (pc = "exited" /\ output = "report") =>
        /\ exitCode \in {0, 1}
        /\ exitCode = 0 <=> AllPass(result)

\* A reported run of two scenarios, one wholly passing with several fields, one
\* with a failing field: the exit code is 1.
C1_Witness ==
    /\ pc = "exited" /\ output = "report" /\ exitCode = 1
    /\ Len(result) = 2
    /\ AllPass(<<result[1]>>)
    /\ \E j \in 1..Len(result[1].result) : Len(result[1].result[j].result) >= 2
    /\ ~AllPass(<<result[2]>>)

\* C2: failing expectations never cut a scenario short.  Every scenario whose
\* result is recorded had each of its n steps executed, once and in declared
\* order, and holds n step results in that order, each the verdict on the
\* outcome of its own step; commands run in scenario order; and a report
\* holds a result for every scenario.
C2_StepsNeverShortCircuit ==
    /\ \A k \in 1..Len(result) :
          LET steps == configs[k].steps
              ex == ExecOf(k)
          IN /\ Len(result[k].result) = Len(steps)
             /\ Len(ex) = Len(steps)
             /\ \A j \in 1..Len(ex) :
                   /\ ex[j].si = j
                   /\ result[k].result[j].result
                        = verifyExpectation(ex[j].result, steps[j].expect)
    /\ \A a, b \in 1..Len(executed) :
          a < b => \/ executed[a].ci < executed[b].ci
                   \/ /\ executed[a].ci = executed[b].ci
                      /\ executed[a].si < executed[b].si
    /\ pc = "steps" =>
          /\ Len(suiteResult) = si - 1
          /\ Len(ExecOf(ci)) = si - 1
    /\ output = "report" => Len(result) = Len(configs)

\* A scenario of several steps whose first step failed has all its steps
\* recorded, and the scenario after it has run its command.
C2_Witness ==
    \E k \in 1..Len(result) :
        /\ Len(configs[k].steps) >= 2
        /\ Failing(result[k].result[1])
        /\ Len(result[k].result) = Len(configs[k].steps)
        /\ ExecOf(k + 1) # <<>>

\* The indices of executed that belong to scenario k.
ExecIndices(k) == {a \in 1..Len(executed) : executed[a].ci = k}

\* C3: a file asset is made once per scenario, before the scenario's first
\* command, and removed only after its last: at every command of the scenario
\* the asset has the same path, the file exists, a placeholder that finds the
\* asset is replaced by that path, and the files are as the command before
\* left them, starting from the declared content.  The steps of README's
\* "Multi steps" therefore end with "foo\nbar" received and passing.
C3_FileAssetLivesThroughScenario ==
    /\ \A a \in 1..Len(executed) :
          LET e == executed[a]
              declared == configs[e.ci].assets
              template == configs[e.ci].steps[e.si].command
          IN /\ \A i \in {j \in 1..Len(declared) : declared[j].type = "file"} :
                   LET path == e.assets[i].file
                       makes == {c \in 1..Len(created) :
                                    created[c].ci = e.ci /\ created[c].asset = i}
                   IN /\ e.assets[i].hasFile
                      /\ path \in DOMAIN e.before
                      /\ Cardinality(makes) = 1
                      /\ \A c \in makes :
                            /\ created[c].path = path
                            /\ \A b \in ExecIndices(e.ci) : created[c].at < b
                      /\ \A r \in 1..Len(removed) :
                            removed[r].path = path => removed[r].at >= a
                      /\ \A b \in ExecIndices(e.ci) :
                            executed[b].assets[i].file = path
                      /\ (\E n \in 1..Len(PlaceholderNames(template)) :
                             /\ PlaceholderNames(template)[n] = declared[i].name
                             /\ FindAsset(declared, declared[i].name, 1) = i)
                            => Contains(e.command, path)
                      /\ (\A b \in ExecIndices(e.ci) : a <= b) =>
                            e.before[path] = IF declared[i].hasContent
                                             THEN declared[i].content
                                             ELSE <<>>
             /\ (a > 1 /\ executed[a - 1].ci = e.ci) =>
                   e.before = executed[a - 1].after
    /\ \A k \in 1..Len(result) :
          docs[k] = StepsDemo =>
             /\ result[k].result[3].result[2].pass
             /\ result[k].result[3].result[2].received
                    = Str(<<"foo", "\n", "bar">>)

\* The three steps of README's "Multi steps" have run on one file as the
\* second scenario of a run, after another scenario used a file of its own.
C3_Witness ==
    /\ Len(result) = 2
    /\ docs[2] = StepsDemo
    /\ docs[1] = PrintFile
    /\ Len(ExecOf(2)) = 3
    /\ ExecOf(2)[3].before[ExecOf(2)[3].assets[1].file] = <<"foo", "\n", "bar", "\n">>
    /\ AllPass(<<result[2]>>)

\* C4: when the run has ended, on whatever path, removeCallback has been
\* called for every temporary file made.
C4_EveryFileRemoved ==
    pc = "exited" =>
        \A c \in 1..Len(created) :
            \E r \in 1..Len(removed) : removed[r].path = created[c].path

\* Whether template t names an asset that the assets `as` do not hold.
Undeclared(t, as) ==
    \E n \in 1..Len(PlaceholderNames(t)) :
        FindAsset(as, PlaceholderNames(t)[n], 1) = 0

\* C5: a step whose template holds a placeholder without an asset is never
\* executed, nor is any later step or scenario; its interpolation fails
\* whatever else the template holds; and the run ends without a report, with
\* a non-zero exit code.
C5_MissingAssetIsFatal ==
    \A c \in 1..Len(configs) : \A s \in 1..Len(configs[c].steps) :
        LET step == configs[c].steps[s]
        IN (step.hasCommand /\ Undeclared(step.command, configs[c].assets)) =>
              /\ \A a \in 1..Len(executed) :
                    \/ executed[a].ci < c
                    \/ executed[a].ci = c /\ executed[a].si < s
              /\ (pc = "steps" /\ ci = c /\ si = s) =>
                    ~generateCommand(step.command, assets, Label(configs[c])).ok
              /\ (pc = "steps" /\ ci = c) => si <= s
              /\ ci <= c
              /\ pc = "exited" => exitCode # 0 /\ output = "error"

\* The run was ended by a template that names a missing asset after one the
\* scenario has, once an earlier step had run and with a scenario left to run.
C5_Witness ==
    /\ pc = "exited" /\ err.kind = "asset" /\ exitCode = 1
    /\ executed # <<>>
    /\ ci < Len(configs)
    /\ si = 2
    /\ \E n \in 1..Len(PlaceholderNames(configs[ci].steps[si].command)) :
          FindAsset(assets, PlaceholderNames(configs[ci].steps[si].command)[n], 1) > 0

\* A document without a name, or with neither a command nor a step.
NotExecutable(d) ==
    \/ ~d.hasName
    \/ ~d.hasCommand /\ (~d.hasSteps \/ d.steps = <<>>)

\* C6: when a document lacks a name or an executable step, no command of any
\* scenario is ever executed and the run ends at normalization with a
\* non-zero exit code.
C6_InvalidDocumentAbortsFirst ==
    (\E i \in 1..Len(docs) : NotExecutable(docs[i])) =>
        /\ executed = <<>>
        /\ pc = "exited" => exitCode # 0 /\ err.kind = "config"

\* Whether t is s with its leading and trailing white space removed.
IsTrimOf(t, s) ==
    \E i \in 1..(Len(s) + 1) : \E j \in 0..Len(s) :
        /\ t = SubSeq(s, i, j)
        /\ \A k \in 1..(i - 1) : s[k] \in WhiteSpace
        /\ \A k \in (j + 1)..Len(s) : s[k] \in WhiteSpace
        /\ t # <<>> => t[1] \notin WhiteSpace /\ t[Len(t)] \notin WhiteSpace
        /\ t = <<>> => \A k \in 1..Len(s) : s[k] \in WhiteSpace

\* C7: verifyExpectation returns one FieldResult per declared field, in
\* order (none when there are no expectations); for captured text the field
\* passes exactly when the expected value is the text with its leading and
\* trailing white space removed, the expected value taken as declared; a
\* status passes exactly when it is the expected value.
C7_OneResultPerFieldTrimReceived ==
    vDone =>
        /\ Len(vOut) = IF vExpect.present THEN Len(vExpect.entries) ELSE 0
        /\ \A i \in 1..Len(vOut) :
              LET key == vExpect.entries[i].key
                  value == vExpect.entries[i].value
                  raw == Field(vResult, key)
              IN /\ vOut[i].type = key
                 /\ vOut[i].expected = value
                 /\ (key \in {"stdout", "stderr"} /\ raw.t = "string") =>
                       (vOut[i].pass <=>
                           value.t = "string" /\ IsTrimOf(value.s, raw.s))
                 /\ key = "status" => (vOut[i].pass <=> raw = value)

\* "foo\n" was received where "foo" is expected, and the field passes.
C7_Witness ==
    /\ vDone
    /\ vResult.stdout = Str(<<"foo", "\n">>)
    /\ Len(vOut) = 2
    /\ \E i \in 1..Len(vOut) :
          /\ vOut[i].type = "stdout"
          /\ vOut[i].expected = Str(<<"foo">>)
          /\ vOut[i].pass

\* C8: the message of a failed interpolation holds the name of the missing
\* placeholder, the command template and the label the runner passed (the
\* scenario's path without the working directory).
C8_ErrorNamesPlaceholderTemplateLabel ==
    err.kind = "asset" =>
        LET template == configs[ci].steps[si].command
        IN /\ \E n \in 1..Len(PlaceholderNames(template)) :
                 /\ FindAsset(assets, PlaceholderNames(template)[n], 1) = 0
                 /\ Contains(err.message, PlaceholderNames(template)[n])
           /\ Contains(err.message, template)
           /\ Contains(err.message, Label(configs[ci]))

\* C9 as claimed: the command of every step result is the interpolated
\* command that was handed to the shell.
C9_RecordsInterpolatedCommand ==
    /\ \A k \in 1..Len(result) : \A j \in 1..Len(result[k].result) :
          j <= Len(ExecOf(k)) => result[k].result[j].command = ExecOf(k)[j].command
    /\ pc = "steps" =>
          \A j \in 1..Len(suiteResult) :
              j <= Len(ExecOf(ci)) => suiteResult[j].command = ExecOf(ci)[j].command

\* C9 as amended: the command of every step result is the step's template
\* as declared, while the shell was handed the interpolation of that
\* template with the scenario's materialized assets.
C9_RecordsTemplate ==
    /\ \A k \in 1..Len(result) : \A j \in 1..Len(result[k].result) :
          /\ result[k].result[j].command = configs[k].steps[j].command
          /\ j <= Len(ExecOf(k)) =>
                ExecOf(k)[j].command
                    = generateCommand(configs[k].steps[j].command,
                                      ExecOf(k)[j].assets, Label(configs[k])).s
    /\ pc = "steps" =>
          \A j \in 1..Len(suiteResult) :
              suiteResult[j].command = configs[ci].steps[j].command

\* A recorded step whose template holds a placeholder: the shell was handed
\* the path of the temporary file, the record holds the template.
C9_Witness ==
    \E k \in 1..Len(result) : \E j \in 1..Len(result[k].result) :
        /\ Len(ExecOf(k)) >= j
        /\ PlaceholderNames(configs[k].steps[j].command) # <<>>
        /\ ExecOf(k)[j].command # result[k].result[j].command
        /\ Contains(ExecOf(k)[j].command, <<"/tmp/tmp-">>)

\* C10: a captured field that is missing counts as "" for stdout and stderr
\* and as 0 for status: expecting "" or 0 of it passes, and "" is what is
\* reported as received for the text fields.
C10_MissingFieldIsEmptyOrZero ==
    vDone =>
        \A i \in 1..Len(vOut) :
            LET key == vExpect.entries[i].key
                value == vExpect.entries[i].value
                raw == Field(vResult, key)
            IN raw.t \in {"undefined", "null"} =>
                  /\ (key \in {"stdout", "stderr"} /\ value = Str(<<>>)) =>
                        vOut[i].pass /\ vOut[i].received = Str(<<>>)
                  /\ (key = "status" /\ value = Num(0)) => vOut[i].pass

====
